---- MODULE Spec2Model ----
(***************************************************************************)
(* Model of the letter-learning game (LearningGame component, its storage  *)
(* and the App shell that mounts it).                                      *)
(*                                                                         *)
(* Characters are modelled by Latin stand-ins for the Cyrillic letters of  *)
(* the program: "a"/"A" for the letter a, "m"/"M" for the letter m, "-"    *)
(* the syllable-boundary marker and " " the blank of an empty cell.  A     *)
(* text is a sequence of characters.                                       *)
(***************************************************************************)
EXTENDS Integers, Sequences, FiniteSets, TLC

(***************************************************************************)
(* Bounds of the model                                                     *)
(***************************************************************************)
\* a player makes at most this many state-changing moves within one task
MaxMoves == 7
\* in the short sessions that draw every shuffle, the moves of one task
ShortMoves == 2
\* largest failed count fed to the score function on its own
MaxFailedProbe == 60
\* longest target text fed to the match detector on its own
MaxTargetLen == 3

(***************************************************************************)
(* Program constants                                                       *)
(***************************************************************************)
GRID_COLS == 3
GRID_ROWS == 1
TOTAL_CELLS == GRID_COLS * GRID_ROWS
Cells == 0 .. (TOTAL_CELLS - 1)
KEYBOARD_LAYOUT == {"A", "M"}
STEP_COUNT == 6
SLICE_COUNT == 3

\* the session's letter and another letter of the progress store
Letter == "A"
OtherLetter == "M"
Letters == {Letter, OtherLetter}

(***************************************************************************)
(* Strings                                                                 *)
(***************************************************************************)
\* String.prototype.toLowerCase on one character
LowerChar(c) ==
  CASE c = "A" -> "a"
    [] c = "M" -> "m"
    [] c = "W_SYL" -> "w_syl"
    [] c = "W_WORD" -> "w_word"
    [] OTHER -> c

toLowerCase(s) == [k \in 1 .. Len(s) |-> LowerChar(s[k])]

IsNotDash(c) == c # "-"

\* text.replace(/-/g, '')
stripDashes(s) == SelectSeq(s, IsNotDash)

(***************************************************************************)
(* Tiles and the grid                                                      *)
(***************************************************************************)
\* the absent entry of GridState (state[idx] is undefined)
NoTile == [char |-> "", id |-> 0]

IsTile(t) == t # NoTile

EmptyGrid == [c \in Cells |-> NoTile]

GridIds(g) == {g[c].id : c \in {d \in Cells : IsTile(g[d])}}

\* an id that is the same for every placed tile
newIdFixed(g) == 1

\* a token no tile of the grid holds: `placed-${char}-${Date.now()}-${Math.random()}`
newId(g) == CHOOSE n \in 1 .. (TOTAL_CELLS + 1) :
              /\ n \notin GridIds(g)
              /\ \A k \in 1 .. (n - 1) : k \in GridIds(g)

(***************************************************************************)
(* Match Detector                                                          *)
(***************************************************************************)
\* rowChars of row r: the lowercased char of each tile, ' ' for an empty cell
rowChars(cols, state, r) ==
  [c \in 1 .. cols |->
     LET item == state[r * cols + (c - 1)]
     IN  IF IsTile(item) THEN LowerChar(item.char) ELSE " "]

\* the inner loop over j, from position j on: rowChars[i+j] === cleanTarget[j]
RECURSIVE matchAt(_, _, _, _)
matchAt(row, cleanTarget, i, j) ==
  IF j >= Len(cleanTarget) THEN TRUE
  ELSE IF row[i + j + 1] # cleanTarget[j + 1] THEN FALSE
  ELSE matchAt(row, cleanTarget, i, j + 1)

\* the loop over i, from offset i on: i <= rowChars.length - cleanTarget.length
RECURSIVE scanRow(_, _, _)
scanRow(row, cleanTarget, i) ==
  IF i > Len(row) - Len(cleanTarget) THEN FALSE
  ELSE IF matchAt(row, cleanTarget, i, 0) THEN TRUE
  ELSE scanRow(row, cleanTarget, i + 1)

\* the loop over the rows, from row r on
RECURSIVE scanRows(_, _, _, _, _)
scanRows(rows, cols, state, cleanTarget, r) ==
  IF r >= rows THEN FALSE
  ELSE IF scanRow(rowChars(cols, state, r), cleanTarget, 0) THEN TRUE
  ELSE scanRows(rows, cols, state, cleanTarget, r + 1)

\* a detector that reads the grid as one long row
checkGridFlat(rows, cols, state, targetWord) ==
  scanRows(1, rows * cols, state, toLowerCase(stripDashes(targetWord)), 0)

\* checkGridForWord on a grid of rows x cols cells
checkGridOf(rows, cols, state, targetWord) ==
  scanRows(rows, cols, state, toLowerCase(stripDashes(targetWord)), 0)

checkGridForWord(state, targetWord) ==
  checkGridOf(GRID_ROWS, GRID_COLS, state, targetWord)

(***************************************************************************)
(* Content of the session's letter (LEARNING_DATA[letter])                 *)
(***************************************************************************)
DataSyllables == << <<"a", "-", "m">>, <<"m", "-", "a">>, <<"a">>, <<"m">> >>
DataWords == << <<"m", "a">>, <<"A", "m">>, <<"a">> >>

\* the permutations of 1..n, as sequences
Perms(n) == {p \in [1 .. n -> 1 .. n] : \A a, b \in 1 .. n : a # b => p[a] # p[b]}

\* shuffle: [...array].sort(() => Math.random() - 0.5) yields some permutation
shuffle(array) == {[k \in 1 .. Len(array) |-> array[p[k]]] : p \in Perms(Len(array))}

\* a slice that takes one entry more
sliceOneMore(array, n) == SubSeq(array, 1, IF Len(array) < n + 1 THEN Len(array) ELSE n + 1)

\* array.slice(0, n)
slice(array, n) == SubSeq(array, 1, IF Len(array) < n THEN Len(array) ELSE n)

asTasks(texts, type) == [k \in 1 .. Len(texts) |-> [text |-> texts[k], type |-> type]]

\* gameTasks of the init effect, from the two shuffled arrays: 3 syllables, then
\* 3 words
gameTasks(shuffledSyllables, shuffledWords) ==
  asTasks(slice(shuffledSyllables, SLICE_COUNT), "syllable")
    \o asTasks(slice(shuffledWords, SLICE_COUNT), "word")

\* every gameTasks the init effect can build
gameTasksOf(syllables, words) ==
  {gameTasks(s, w) : s \in shuffle(syllables), w \in shuffle(words)}

(***************************************************************************)
(* Score Function                                                          *)
(***************************************************************************)
\* thresholds compared with > instead of >=
starsOfStrict(finalFailedCount) ==
  IF finalFailedCount > 6 THEN 0
  ELSE IF finalFailedCount > 4 THEN 1
  ELSE IF finalFailedCount > 2 THEN 2
  ELSE 3

\* the stars finishGame computes from finalFailedCount
starsOf(finalFailedCount) ==
  IF finalFailedCount >= 6 THEN 0
  ELSE IF finalFailedCount >= 4 THEN 1
  ELSE IF finalFailedCount >= 2 THEN 2
  ELSE 3

(***************************************************************************)
(* Progress store (localStorage under STORAGE_KEY)                         *)
(***************************************************************************)
\* a letter without an entry in the parsed mapping
NoScore == -1

EmptyProgress == [l \in Letters |-> NoScore]

\* the raw value under STORAGE_KEY: nothing, text JSON.parse rejects, a value
\* getItem raises on, the JSON of a mapping, or JSON that is no mapping ("null",
\* "[]")
AbsentStore == [kind |-> "absent", map |-> EmptyProgress]
CorruptStore == [kind |-> "corrupt", map |-> EmptyProgress]
UnreadableStore == [kind |-> "unreadable", map |-> EmptyProgress]
NullStore == [kind |-> "null", map |-> EmptyProgress]
ArrayStore == [kind |-> "array", map |-> EmptyProgress]
JsonStore(m) == [kind |-> "json", map |-> m]

\* the values loadProgress returns: an object with its entries, null, an array
ObjectValue(m) == [type |-> "object", map |-> m]
NullValue == [type |-> "null", map |-> EmptyProgress]
ArrayValue == [type |-> "array", map |-> EmptyProgress]

\* stored ? JSON.parse(stored) : {}, and {} when getItem or JSON.parse throws
loadProgress(store) ==
  CASE store.kind = "json" -> ObjectValue(store.map)
    [] store.kind = "null" -> NullValue
    [] store.kind = "array" -> ArrayValue
    [] OTHER -> ObjectValue(EmptyProgress)

\* current[letter] = stars raises a TypeError on null
saveRaises(store) == loadProgress(store).type = "null"

\* a write that keeps the higher of the old and the new rating
saveLetterScoreMax(store, letter, stars) ==
  CASE loadProgress(store).type = "object" ->
         JsonStore([loadProgress(store).map EXCEPT
                      ![letter] = IF @ > stars THEN @ ELSE stars])
    [] OTHER -> store

\* current = loadProgress(); current[letter] = stars; setItem(JSON.stringify(current)):
\* the store afterwards, where setItem works; JSON.stringify leaves out what was
\* set on an array
saveLetterScore(store, letter, stars) ==
  CASE loadProgress(store).type = "object" ->
         JsonStore([loadProgress(store).map EXCEPT ![letter] = stars])
    [] OTHER -> store

\* localStorage.removeItem(STORAGE_KEY)
resetProgress(store) == AbsentStore

(***************************************************************************)
(* State                                                                   *)
(***************************************************************************)
VARIABLES
  selectedLetter,      \* App: the letter of the mounted game, "none" after exit
  gridState,           \* LearningGame state
  activeDragData,
  tasks,
  currentTaskIndex,
  moveCount,
  failedStepsCount,
  completedSteps,
  isProcessingSuccess,
  gameFinished,
  finalStars,
  cbFailedStepsCount,  \* failedStepsCount as closed over by the memoized handleDragEnd
  drag,                \* the gesture source's payload between begin and end
  timeouts,            \* pending setTimeout callbacks, with what they closed over
  utterance,           \* text of the utterance in flight, <<>> when none
  currentUtterance,    \* audio module: the utterance it holds a reference to
  speechEvents,        \* cancelled utterances whose end or error event is still to come
  speechQueue,         \* speechSynthesis: the utterances waiting behind the one in flight
  sound,               \* the sound effect the last step started, "none" when it started none
  env,                 \* what the page offers: audio, speech, a writable store
  stored,              \* the progress store
  saveCalls,           \* history: the calls of saveLetterScore so far
  exitedEarly,         \* history: the session was left before finishGame ran
  probe                \* inputs and results of the pure functions checked alone

gameVars == <<gridState, activeDragData, tasks, currentTaskIndex, moveCount,
              failedStepsCount, completedSteps, isProcessingSuccess, gameFinished,
              finalStars, cbFailedStepsCount>>

vars == <<selectedLetter, gridState, activeDragData, tasks, currentTaskIndex,
          moveCount, failedStepsCount, completedSteps, isProcessingSuccess,
          gameFinished, finalStars, cbFailedStepsCount, drag, timeouts, utterance,
          currentUtterance, speechEvents, speechQueue, sound, env, stored, saveCalls,
          exitedEarly, probe>>

speechVars == <<utterance, currentUtterance, speechEvents, speechQueue>>

NoDrag == [origin |-> "none", char |-> "", id |-> 0, index |-> -1]
\* no pure function under check
NoProbe == [fn |-> "none", grid |-> <<>>, target |-> <<>>, n |-> 0, done |-> FALSE,
            matched |-> FALSE, stars |-> 0, letter |-> "",
            value |-> ObjectValue(EmptyProgress), raised |-> FALSE]
NoUtterance == <<>>

mounted == selectedLetter # "none"

\* a handler that is never rebuilt: it keeps the failedStepsCount of the first
\* render
RenderStale == cbFailedStepsCount' = cbFailedStepsCount

\* useCallback(handleDragEnd, [gridState, tasks, currentTaskIndex, moveCount,
\* gameFinished, isProcessingSuccess]): the handler, and with it the
\* handleTaskSuccess and failedStepsCount of its render, is replaced only on a
\* render in which one of these changed
Render ==
  cbFailedStepsCount' =
    IF <<gridState, tasks, currentTaskIndex, moveCount, gameFinished, isProcessingSuccess>>'
         # <<gridState, tasks, currentTaskIndex, moveCount, gameFinished, isProcessingSuccess>>
    THEN failedStepsCount'
    ELSE cbFailedStepsCount

(***************************************************************************)
(* The page: audio, speech and storage as the browser offers them          *)
(***************************************************************************)
\* audio "ok": every playSound works; "absent": window has no AudioContext;
\* "faulty": new AudioContext() raises in some calls.  speech: window has
\* speechSynthesis.  storeWrites: localStorage.setItem does not raise.
\* lateSpeechEvents: the engine delivers the end or error event of a cancelled
\* utterance after the cancelling call returned, not before
HealthyEnv == [audio |-> "ok", speech |-> TRUE, storeWrites |-> TRUE,
               lateSpeechEvents |-> FALSE]

\* what one call of playSound can do in this page
SoundResults ==
  CASE env.audio = "ok" -> {"played"}
    [] env.audio = "absent" -> {"silent"}
    [] OTHER -> {"played", "raised"}

\* the effect playSound(type) starts, given what the call did
playSound(type, result) == IF result = "played" THEN type ELSE "none"

(***************************************************************************)
(* Speech                                                                  *)
(***************************************************************************)
\* the text of the utterance speakText builds: text.toLowerCase()
speakText(text) == toLowerCase(text)

\* window.speechSynthesis.cancel(): the utterance in flight stops, and its end or
\* error event is still to come where the engine delivers it late
cancelled ==
  IF utterance # NoUtterance /\ env.lateSpeechEvents
  THEN speechEvents \cup {utterance}
  ELSE speechEvents

\* a speakText that does not cancel: speechSynthesis.speak puts the utterance
\* behind the one in flight
speakNoCancel(text) ==
  IF ~env.speech
  THEN UNCHANGED speechVars
  ELSE /\ speechEvents' = speechEvents
       /\ currentUtterance' = speakText(text)
       /\ utterance' = IF utterance = NoUtterance THEN speakText(text) ELSE utterance
       /\ speechQueue' = IF utterance = NoUtterance THEN speechQueue
                         ELSE Append(speechQueue, speakText(text))

\* a speakText that speaks nothing
speakNothing(text) == UNCHANGED speechVars

\* speakText(text): nothing without speechSynthesis; else cancel, which empties
\* the engine's queue, build the utterance, keep the reference, speak
speak(text) ==
  IF ~env.speech
  THEN UNCHANGED speechVars
  ELSE /\ speechEvents' = cancelled
       /\ currentUtterance' = speakText(text)
       /\ utterance' = speakText(text)
       /\ speechQueue' = <<>>

\* the prompt announceTask renders for a task
promptOf(task) ==
  IF task.type = "syllable"
  THEN <<"W_SYL">> \o task.text
  ELSE <<"W_WORD">> \o stripDashes(task.text)

\* tasks[i] of a JS array (0-based); undefined outside it
HasTask(ts, i) == i >= 0 /\ i < Len(ts)
TaskAt(ts, i) == ts[i + 1]

\* announceTask(tasks[i])
announceTask(ts, i) ==
  IF ~HasTask(ts, i) THEN UNCHANGED speechVars ELSE speak(promptOf(TaskAt(ts, i)))

(***************************************************************************)
(* Init: the state after App mounted LearningGame and its init effect ran  *)
(***************************************************************************)
TimeoutRec(kind, ts, idx, failedStep, failed) ==
  [kind |-> kind, tasks |-> ts, idx |-> idx, isFailedStep |-> failedStep,
   failedStepsCount |-> failed]

\* the progress store before the session: 3 stars for its letter, 2 for another
InitialStore == JsonStore([l \in Letters |-> IF l = Letter THEN 3 ELSE 2])

NoSteps == [k \in 0 .. (STEP_COUNT - 1) |-> FALSE]

\* the useState defaults of LearningGame
FreshGame ==
  /\ gridState = EmptyGrid
  /\ activeDragData = NoDrag
  /\ currentTaskIndex = 0
  /\ moveCount = 0
  /\ failedStepsCount = 0
  /\ completedSteps = NoSteps
  /\ isProcessingSuccess = FALSE
  /\ gameFinished = FALSE
  /\ finalStars = 0
  /\ cbFailedStepsCount = 0

\* the init effect built gameTasks from ts and scheduled the first announcement
Mounted(ts) ==
  /\ selectedLetter = Letter
  /\ FreshGame
  /\ tasks = ts
  /\ drag = NoDrag
  /\ timeouts = {TimeoutRec("announce", ts, 0, FALSE, 0)}
  /\ utterance = NoUtterance
  /\ currentUtterance = NoUtterance
  /\ speechEvents = {}
  /\ speechQueue = <<>>
  /\ sound = "none"
  /\ stored = InitialStore
  /\ saveCalls = 0
  /\ exitedEarly = FALSE
  /\ probe = NoProbe

\* a session in which both shuffles returned the content in its order
Init == Mounted(gameTasks(DataSyllables, DataWords)) /\ env = HealthyEnv

(***************************************************************************)
(* Gestures                                                                *)
(***************************************************************************)
\* what the gesture source can pick up: a keyboard key or a tile of the grid
KeyboardPayload(ch) == [origin |-> "keyboard", char |-> ch, id |-> 0, index |-> -1]
GridPayload(g, c) == [origin |-> "grid", char |-> g[c].char, id |-> g[c].id, index |-> c]

Payloads(g) ==
  {KeyboardPayload(ch) : ch \in KEYBOARD_LAYOUT}
    \cup {GridPayload(g, c) : c \in {d \in Cells : IsTile(g[d])}}

\* drop targets: nothing, the keyboard area, or a cell
NoTarget == -2
KeyboardArea == -1
DropTargets == {NoTarget, KeyboardArea} \cup Cells

\* an early return that forgets the lock
rejectsOnlyWhenFinished == gameFinished

\* an early return that forgets the finished session
rejectsOnlyUntilFinished == isProcessingSuccess /\ ~gameFinished

\* the early return of handleDragStart and handleDragEnd
rejectsGesture == gameFinished \/ isProcessingSuccess

\* handleDragStart(event), its playSound call doing result; without
\* speechSynthesis the handler raises at window.speechSynthesis.cancel()
handleDragStart(data, result) ==
  IF rejectsGesture \/ ~env.speech
  THEN /\ UNCHANGED <<activeDragData, speechVars>>
       /\ sound' = "none"
  ELSE /\ speechEvents' = cancelled
       /\ utterance' = NoUtterance
       /\ speechQueue' = <<>>
       /\ currentUtterance' = IF utterance # NoUtterance /\ ~env.lateSpeechEvents
                              THEN NoUtterance
                              ELSE currentUtterance
       /\ activeDragData' = data
       /\ sound' = playSound(IF data.origin = "grid" THEN "rustle" ELSE "grab", result)

\* a begin event of the gesture source carrying one of payloads, by a player who
\* makes at most limit moves in a task
BeginMoveFrom(limit, payloads) ==
  /\ mounted
  /\ ~gameFinished
  /\ drag = NoDrag
  /\ moveCount < limit
  /\ \E data \in payloads, result \in SoundResults :
       /\ drag' = data
       /\ handleDragStart(data, result)
  /\ UNCHANGED <<selectedLetter, gridState, tasks, currentTaskIndex, moveCount,
                 failedStepsCount, completedSteps, isProcessingSuccess, gameFinished,
                 finalStars, cbFailedStepsCount, timeouts, env, stored, saveCalls,
                 exitedEarly, probe>>

\* a begin event on one of the rendered DraggableItems
BeginMoveWithin(limit) == BeginMoveFrom(limit, Payloads(gridState))

BeginMove == BeginMoveWithin(MaxMoves)

\* a drop that never clears or refills the source cell
dropStateKeepsSource(g, data, over) ==
  IF data.origin = "grid" /\ over = KeyboardArea
  THEN IF data.index # -1 THEN [g EXCEPT ![data.index] = NoTile] ELSE g
  ELSE IF over \in Cells
  THEN IF data.origin = "grid" /\ data.index # -1
       THEN IF data.index # over
            THEN [g EXCEPT ![over] = [char |-> data.char,
                                      id |-> IF data.id # 0 THEN data.id ELSE newId(g)]]
            ELSE g
       ELSE IF data.origin = "keyboard"
            THEN [g EXCEPT ![over] = [char |-> data.char, id |-> newId(g)]]
            ELSE g
  ELSE g

\* a drop that clears the source cell and loses the tile of the target cell
dropStateLosesTarget(g, data, over) ==
  IF data.origin = "grid" /\ over = KeyboardArea
  THEN IF data.index # -1 THEN [g EXCEPT ![data.index] = NoTile] ELSE g
  ELSE IF over \in Cells
  THEN IF data.origin = "grid" /\ data.index # -1
       THEN IF data.index # over
            THEN [g EXCEPT ![data.index] = NoTile,
                           ![over] = [char |-> data.char,
                                      id |-> IF data.id # 0 THEN data.id ELSE newId(g)]]
            ELSE g
       ELSE IF data.origin = "keyboard"
            THEN [g EXCEPT ![over] = [char |-> data.char, id |-> newId(g)]]
            ELSE g
  ELSE g

\* a drop on the keyboard area that removes nothing
dropStateRemovesNothing(g, data, over) ==
  IF data.origin = "grid" /\ over = KeyboardArea
  THEN g
  ELSE IF over \in Cells
  THEN IF data.origin = "grid" /\ data.index # -1
       THEN IF data.index # over
            THEN [g EXCEPT ![data.index] = g[over],
                           ![over] = [char |-> data.char,
                                      id |-> IF data.id # 0 THEN data.id ELSE newId(g)]]
            ELSE g
       ELSE IF data.origin = "keyboard"
            THEN [g EXCEPT ![over] = [char |-> data.char, id |-> newId(g)]]
            ELSE g
  ELSE g

\* the nextState handleDragEnd builds for a drop of data on over
dropState(g, data, over) ==
  IF data.origin = "grid" /\ over = KeyboardArea
  THEN IF data.index # -1 THEN [g EXCEPT ![data.index] = NoTile] ELSE g
  ELSE IF over \in Cells
  THEN IF data.origin = "grid" /\ data.index # -1
       THEN IF data.index # over
            THEN [g EXCEPT ![data.index] = g[over],
                           ![over] = [char |-> data.char,
                                      id |-> IF data.id # 0 THEN data.id ELSE newId(g)]]
            ELSE g
       ELSE IF data.origin = "keyboard"
            THEN [g EXCEPT ![over] = [char |-> data.char, id |-> newId(g)]]
            ELSE g
  ELSE g

\* a didChange that counts the drop of a grid tile on its own cell
didChangeOwnCell(data, over) ==
  IF data.origin = "grid" /\ over = KeyboardArea THEN TRUE
  ELSE IF over \in Cells
  THEN IF data.origin = "grid" /\ data.index # -1
       THEN TRUE
       ELSE data.origin = "keyboard"
  ELSE FALSE

\* the didChange handleDragEnd computes for a drop of data on over
didChange(data, over) ==
  IF data.origin = "grid" /\ over = KeyboardArea THEN TRUE
  ELSE IF over \in Cells
  THEN IF data.origin = "grid" /\ data.index # -1
       THEN data.index # over
       ELSE data.origin = "keyboard"
  ELSE FALSE

\* the moveCount handleTaskSuccess reads: that of the render which built the
\* handler, the count before this move (setMoveCount(newMoveCount) shows only in
\* the next render)
moveCountSeen == moveCount

\* isFailedStep of handleTaskSuccess(task)
isFailedStep(task) == moveCountSeen > Len(stripDashes(task.text)) + 3

\* handleTaskSuccess(task)
handleTaskSuccess(task) ==
  /\ isProcessingSuccess' = TRUE
  /\ failedStepsCount' = IF isFailedStep(task) THEN failedStepsCount + 1
                         ELSE failedStepsCount
  /\ speak(stripDashes(task.text))
  /\ timeouts' = timeouts \cup
       {TimeoutRec("sound", tasks, currentTaskIndex, isFailedStep(task),
                   cbFailedStepsCount)}

\* handleDragEnd(event), its playSound('drop') call doing result: a call that
\* raises ends the handler there
handleDragEnd(data, over, result) ==
  /\ activeDragData' = NoDrag
  /\ sound' = IF rejectsGesture THEN "none" ELSE playSound("drop", result)
  /\ IF rejectsGesture \/ result = "raised" \/ over = NoTarget \/ ~didChange(data, over)
     THEN UNCHANGED <<gridState, moveCount, isProcessingSuccess, failedStepsCount,
                      speechVars, timeouts>>
     ELSE LET nextState == dropState(gridState, data, over)
          IN  /\ gridState' = nextState
              /\ moveCount' = moveCount + 1
              /\ IF HasTask(tasks, currentTaskIndex)
                    /\ checkGridForWord(nextState, TaskAt(tasks, currentTaskIndex).text)
                 THEN handleTaskSuccess(TaskAt(tasks, currentTaskIndex))
                 ELSE /\ speak(<<data.char>>)
                      /\ UNCHANGED <<isProcessingSuccess, failedStepsCount, timeouts>>

\* the end event of the gesture in flight, dropped on over
EndMoveOn(over) ==
  /\ mounted
  /\ drag # NoDrag
  /\ \E result \in SoundResults : handleDragEnd(drag, over, result)
  /\ drag' = NoDrag
  /\ UNCHANGED <<selectedLetter, tasks, currentTaskIndex, completedSteps, gameFinished,
                 finalStars, env, stored, saveCalls, exitedEarly, probe>>
  /\ Render

EndMove == \E over \in DropTargets : EndMoveOn(over)

(***************************************************************************)
(* Scheduled callbacks                                                     *)
(***************************************************************************)
\* a callback fires only after the callbacks with an earlier deadline: the 800 ms
\* announcement precedes the 1000 ms step of any match
CanFire(t) ==
  t.kind = "announce" \/ ~(\E u \in timeouts : u.kind = "announce")

\* a state setter of LearningGame acts only while the instance is mounted
live == mounted

\* setTimeout(() => announceTask(gameTasks[0]), 800)
FireAnnounce ==
  /\ \E t \in timeouts :
       /\ t.kind = "announce"
       /\ timeouts' = timeouts \ {t}
       /\ announceTask(t.tasks, 0)
  /\ sound' = "none"
  /\ UNCHANGED <<selectedLetter, gameVars, drag, env, stored, saveCalls, exitedEarly,
                 probe>>

\* a 1000 ms callback that leaves the indicator as it is
FireSoundNoFlag ==
  /\ \E t \in timeouts, result \in SoundResults :
       /\ t.kind = "sound"
       /\ CanFire(t)
       /\ sound' = playSound("success", result)
       /\ timeouts' = IF result = "raised" THEN timeouts \ {t}
                      ELSE (timeouts \ {t}) \cup {[t EXCEPT !.kind = "next"]}
  /\ UNCHANGED <<selectedLetter, gridState, activeDragData, tasks, currentTaskIndex,
                 moveCount, failedStepsCount, completedSteps, isProcessingSuccess,
                 gameFinished, finalStars, cbFailedStepsCount, drag, speechVars, env,
                 stored, saveCalls, exitedEarly, probe>>

\* the 1000 ms callback of handleTaskSuccess: success sound, indicator, and the
\* 2000 ms callback scheduled; a playSound that raises ends the callback there
FireSound ==
  /\ \E t \in timeouts, result \in SoundResults :
       /\ t.kind = "sound"
       /\ CanFire(t)
       /\ sound' = playSound("success", result)
       /\ timeouts' = IF result = "raised" THEN timeouts \ {t}
                      ELSE (timeouts \ {t}) \cup {[t EXCEPT !.kind = "next"]}
       /\ completedSteps' = IF live /\ result # "raised"
                            THEN [completedSteps EXCEPT ![t.idx] = TRUE]
                            ELSE completedSteps
  /\ UNCHANGED <<selectedLetter, gridState, activeDragData, tasks, currentTaskIndex,
                 moveCount, failedStepsCount, isProcessingSuccess, gameFinished,
                 finalStars, cbFailedStepsCount, drag, speechVars, env, stored,
                 saveCalls, exitedEarly, probe>>

\* finishGame(finalFailedCount), its playSound call doing result: where setItem
\* raises, saveLetterScore raises and finishGame ends there
finishGame(finalFailedCount, result) ==
  /\ finalStars' = IF live THEN starsOf(finalFailedCount) ELSE finalStars
  /\ gameFinished' = IF live THEN TRUE ELSE gameFinished
  /\ saveCalls' = saveCalls + 1
  /\ IF env.storeWrites /\ ~saveRaises(stored)
     THEN /\ stored' = saveLetterScore(stored, Letter, starsOf(finalFailedCount))
          /\ sound' = playSound("fanfare", result)
     ELSE /\ stored' = stored
          /\ sound' = "none"

\* a final count that leaves out the last task's failure
finalFailedCountStale(t) == t.failedStepsCount

\* the failed count the 2000 ms callback hands to finishGame
finalFailedCountOf(t) ==
  IF t.isFailedStep THEN t.failedStepsCount + 1 ELSE t.failedStepsCount

\* the 2000 ms callback of handleTaskSuccess when no task is left: finalize
FireFinish ==
  /\ \E t \in timeouts, result \in SoundResults :
       /\ t.kind = "next"
       /\ t.idx + 1 >= Len(t.tasks)
       /\ timeouts' = timeouts \ {t}
       /\ finishGame(finalFailedCountOf(t), result)
  /\ UNCHANGED <<selectedLetter, gridState, activeDragData, tasks, currentTaskIndex,
                 moveCount, failedStepsCount, completedSteps, isProcessingSuccess,
                 drag, speechVars, env, exitedEarly, probe>>
  /\ Render

\* a 2000 ms callback that clears and advances but leaves the session locked
FireNextStaysLocked ==
  /\ \E t \in timeouts :
       /\ t.kind = "next"
       /\ t.idx + 1 < Len(t.tasks)
       /\ timeouts' = timeouts \ {t}
       /\ IF live
          THEN /\ gridState' = EmptyGrid
               /\ moveCount' = 0
               /\ currentTaskIndex' = t.idx + 1
          ELSE UNCHANGED <<gridState, moveCount, currentTaskIndex>>
       /\ announceTask(t.tasks, t.idx + 1)
  /\ sound' = "none"
  /\ UNCHANGED <<selectedLetter, activeDragData, tasks, failedStepsCount,
                 completedSteps, isProcessingSuccess, gameFinished, finalStars, drag,
                 env, stored, saveCalls, exitedEarly, probe>>
  /\ Render

\* the 2000 ms callback of handleTaskSuccess when tasks are left: clear, advance,
\* unlock, announce
FireNext ==
  /\ \E t \in timeouts :
       /\ t.kind = "next"
       /\ t.idx + 1 < Len(t.tasks)
       /\ timeouts' = timeouts \ {t}
       /\ IF live
          THEN /\ gridState' = EmptyGrid
               /\ moveCount' = 0
               /\ currentTaskIndex' = t.idx + 1
               /\ isProcessingSuccess' = FALSE
          ELSE UNCHANGED <<gridState, moveCount, currentTaskIndex, isProcessingSuccess>>
       /\ announceTask(t.tasks, t.idx + 1)
  /\ sound' = "none"
  /\ UNCHANGED <<selectedLetter, activeDragData, tasks, failedStepsCount,
                 completedSteps, gameFinished, finalStars, drag, env, stored, saveCalls,
                 exitedEarly, probe>>
  /\ Render

(***************************************************************************)
(* Buttons                                                                 *)
(***************************************************************************)
\* a re-announce that also restarts the move count
ReAnnounceResetsMoves ==
  /\ mounted
  /\ ~gameFinished
  /\ announceTask(tasks, currentTaskIndex)
  /\ moveCount' = 0
  /\ sound' = "none"
  /\ UNCHANGED <<selectedLetter, gridState, activeDragData, tasks, currentTaskIndex,
                 failedStepsCount, completedSteps, isProcessingSuccess, gameFinished,
                 finalStars, cbFailedStepsCount, drag, timeouts, env, stored, saveCalls,
                 exitedEarly, probe>>

\* the re-announce button: onClick={() => announceTask(tasks[currentTaskIndex])}
ReAnnounce ==
  /\ mounted
  /\ ~gameFinished
  /\ announceTask(tasks, currentTaskIndex)
  /\ sound' = "none"
  /\ UNCHANGED <<selectedLetter, gameVars, drag, timeouts, env, stored, saveCalls,
                 exitedEarly, probe>>

\* onBack -> handleBackToLearning: setSelectedLetter(null) unmounts the game and
\* drops its state; nothing cancels its pending callbacks
handleBackToLearning ==
  /\ mounted
  /\ selectedLetter' = "none"
  /\ exitedEarly' = ~gameFinished
  /\ gridState' = EmptyGrid
  /\ activeDragData' = NoDrag
  /\ tasks' = <<>>
  /\ currentTaskIndex' = 0
  /\ moveCount' = 0
  /\ failedStepsCount' = 0
  /\ completedSteps' = NoSteps
  /\ isProcessingSuccess' = FALSE
  /\ gameFinished' = FALSE
  /\ finalStars' = 0
  /\ cbFailedStepsCount' = 0
  /\ drag' = NoDrag
  /\ sound' = "none"
  /\ UNCHANGED <<timeouts, speechVars, env, stored, saveCalls, probe>>

Next ==
  \/ BeginMove
  \/ EndMove
  \/ FireAnnounce
  \/ FireSound
  \/ FireFinish
  \/ FireNext
  \/ ReAnnounce
  \/ handleBackToLearning

Spec == Init /\ [][Next]_vars

(***************************************************************************)
(* Short sessions over every outcome of the two shuffles                   *)
(***************************************************************************)
InitShuffle ==
  /\ \E ts \in gameTasksOf(DataSyllables, DataWords) : Mounted(ts)
  /\ env = HealthyEnv

BeginMoveShort == BeginMoveWithin(ShortMoves)

NextShuffle ==
  \/ BeginMoveShort
  \/ EndMove
  \/ FireAnnounce
  \/ FireSound
  \/ FireFinish
  \/ FireNext
  \/ ReAnnounce
  \/ handleBackToLearning

SpecShuffle == InitShuffle /\ [][NextShuffle]_vars

(***************************************************************************)
(* The first task with a speech engine that delivers the events of an      *)
(* utterance after the call that cancelled it, and whose utterances end    *)
(***************************************************************************)
\* the utterance in flight is spoken to its end: its end event is to come
SpeechEnds ==
  /\ utterance # NoUtterance
  /\ utterance' = IF speechQueue = <<>> THEN NoUtterance ELSE Head(speechQueue)
  /\ speechQueue' = IF speechQueue = <<>> THEN <<>> ELSE Tail(speechQueue)
  /\ speechEvents' = speechEvents \cup {utterance}
  /\ sound' = "none"
  /\ UNCHANGED <<selectedLetter, gameVars, drag, timeouts, currentUtterance, env,
                 stored, saveCalls, exitedEarly, probe>>

\* utterance.onend / utterance.onerror of an utterance that ended or was cancelled
onend ==
  /\ \E u \in speechEvents : speechEvents' = speechEvents \ {u}
  /\ currentUtterance' = NoUtterance
  /\ sound' = "none"
  /\ UNCHANGED <<selectedLetter, gameVars, drag, timeouts, utterance, speechQueue, env,
                 stored, saveCalls, exitedEarly, probe>>

InitSpeech ==
  /\ Mounted(gameTasks(DataSyllables, DataWords))
  /\ env = [HealthyEnv EXCEPT !.lateSpeechEvents = TRUE]

NextSpeech ==
  \/ BeginMoveShort
  \/ EndMove
  \/ FireAnnounce
  \/ ReAnnounce
  \/ SpeechEnds
  \/ onend

SpecSpeech == InitSpeech /\ [][NextSpeech]_vars

(***************************************************************************)
(* Short sessions with a gesture source that supplies every DragData the   *)
(* type allows: a grid-origin payload may lack index and id                *)
(***************************************************************************)
AnyPayloads(g) ==
  Payloads(g) \cup {[origin |-> "grid", char |-> ch, id |-> 0, index |-> -1] :
                      ch \in KEYBOARD_LAYOUT}

BeginMoveAny == BeginMoveFrom(ShortMoves, AnyPayloads(gridState))

NextGestures ==
  \/ BeginMoveAny
  \/ EndMove
  \/ FireAnnounce
  \/ FireSound
  \/ FireFinish
  \/ FireNext
  \/ ReAnnounce
  \/ handleBackToLearning

SpecGestures == Init /\ [][NextGestures]_vars

(***************************************************************************)
(* Short sessions in which every scheduled callback eventually fires       *)
(***************************************************************************)
Timers ==
  /\ WF_vars(FireAnnounce)
  /\ WF_vars(FireSound)
  /\ WF_vars(FireFinish)
  /\ WF_vars(FireNext)

SpecLive == Init /\ [][NextShuffle]_vars /\ Timers

(***************************************************************************)
(* A session for a letter that has no content data                         *)
(***************************************************************************)
NoData == [present |-> FALSE, syllables |-> <<>>, words |-> <<>>]

\* LEARNING_DATA[l]: the session's letter has content, the other letter none
LEARNING_DATA(l) ==
  IF l = Letter
  THEN [present |-> TRUE, syllables |-> DataSyllables, words |-> DataWords]
  ELSE NoData

\* the task lists the init effect can set: none is set when data is missing
initTasks(data) ==
  IF ~data.present THEN {<<>>} ELSE gameTasksOf(data.syllables, data.words)

\* an init effect that schedules the first announcement without data
initTimeoutsAlways(data, ts) == {TimeoutRec("announce", ts, 0, FALSE, 0)}

\* the callbacks the init effect schedules: none when data is missing
initTimeouts(data, ts) ==
  IF ~data.present THEN {} ELSE {TimeoutRec("announce", ts, 0, FALSE, 0)}

InitNoData ==
  /\ selectedLetter = OtherLetter
  /\ FreshGame
  /\ tasks \in initTasks(LEARNING_DATA(OtherLetter))
  /\ drag = NoDrag
  /\ timeouts = initTimeouts(LEARNING_DATA(OtherLetter), tasks)
  /\ utterance = NoUtterance
  /\ currentUtterance = NoUtterance
  /\ speechEvents = {}
  /\ speechQueue = <<>>
  /\ sound = "none"
  /\ env = HealthyEnv
  /\ stored = InitialStore
  /\ saveCalls = 0
  /\ exitedEarly = FALSE
  /\ probe = NoProbe

NextNoData ==
  \/ BeginMove
  \/ EndMove
  \/ ReAnnounce
  \/ handleBackToLearning

SpecNoData == InitNoData /\ [][NextNoData]_vars

(***************************************************************************)
(* Short sessions in every page: audio working, absent or raising, speech  *)
(* present or not, the store writable or not                               *)
(***************************************************************************)
Envs ==
  {[audio |-> a, speech |-> sp, storeWrites |-> w, lateSpeechEvents |-> FALSE] :
     a \in {"ok", "absent", "faulty"}, sp \in BOOLEAN, w \in BOOLEAN}

InitFaults ==
  /\ Mounted(gameTasks(DataSyllables, DataWords))
  /\ env \in Envs

SpecFaults == InitFaults /\ [][NextShuffle]_vars

(***************************************************************************)
(* The pure functions on their own: the match detector on every small grid *)
(* and target, the score function on every small failed count              *)
(***************************************************************************)
ProbeRows == GRID_ROWS + 1
ProbeCols == GRID_COLS - 1
ProbeCells == 0 .. (ProbeRows * ProbeCols - 1)
ProbeTileChars == {"a", "m", "A"}
ProbeTargetChars == {"a", "m", "A", "-", " "}

ProbeGrids ==
  {[c \in ProbeCells |-> IF ch[c] = "" THEN NoTile ELSE [char |-> ch[c], id |-> c + 1]] :
     ch \in [ProbeCells -> ProbeTileChars \cup {""}]}

ProbeTargets == UNION {[1 .. k -> ProbeTargetChars] : k \in 0 .. MaxTargetLen}

MatchProbe(g, w) == [NoProbe EXCEPT !.fn = "match", !.grid = g, !.target = w]
ScoreProbe(k) == [NoProbe EXCEPT !.fn = "score", !.n = k]

InitPure ==
  /\ selectedLetter = "none"
  /\ FreshGame
  /\ tasks = <<>>
  /\ drag = NoDrag
  /\ timeouts = {}
  /\ utterance = NoUtterance
  /\ currentUtterance = NoUtterance
  /\ speechEvents = {}
  /\ speechQueue = <<>>
  /\ sound = "none"
  /\ env = HealthyEnv
  /\ stored = InitialStore
  /\ saveCalls = 0
  /\ exitedEarly = FALSE
  /\ probe \in {MatchProbe(g, w) : g \in ProbeGrids, w \in ProbeTargets}
                 \cup {ScoreProbe(k) : k \in 0 .. MaxFailedProbe}

\* checkGridForWord(state, targetWord) is called
ApplyMatch ==
  /\ probe.fn = "match"
  /\ ~probe.done
  /\ probe' = [probe EXCEPT !.done = TRUE,
                            !.matched = checkGridOf(ProbeRows, ProbeCols, probe.grid,
                                                    probe.target)]
  /\ UNCHANGED <<selectedLetter, gameVars, drag, timeouts, speechVars, sound, env,
                 stored, saveCalls, exitedEarly>>

\* the stars of finishGame(finalFailedCount) are computed
ApplyScore ==
  /\ probe.fn = "score"
  /\ ~probe.done
  /\ probe' = [probe EXCEPT !.done = TRUE, !.stars = starsOf(probe.n)]
  /\ UNCHANGED <<selectedLetter, gameVars, drag, timeouts, speechVars, sound, env,
                 stored, saveCalls, exitedEarly>>

NextPure ==
  \/ ApplyMatch
  \/ ApplyScore

SpecPure == InitPure /\ [][NextPure]_vars

(***************************************************************************)
(* The progress store on its own: every small stored value, read, written  *)
(* and erased                                                              *)
(***************************************************************************)
Ratings == 0 .. 3

Stores ==
  {JsonStore(m) : m \in [Letters -> Ratings \cup {NoScore}]}
    \cup {AbsentStore, CorruptStore, UnreadableStore, NullStore, ArrayStore}

InitStore ==
  /\ selectedLetter = "none"
  /\ FreshGame
  /\ tasks = <<>>
  /\ drag = NoDrag
  /\ timeouts = {}
  /\ utterance = NoUtterance
  /\ currentUtterance = NoUtterance
  /\ speechEvents = {}
  /\ speechQueue = <<>>
  /\ sound = "none"
  /\ env \in {HealthyEnv, [HealthyEnv EXCEPT !.storeWrites = FALSE]}
  /\ stored \in Stores
  /\ saveCalls = 0
  /\ exitedEarly = FALSE
  /\ probe = NoProbe

\* loadProgress() is called
ApplyLoad ==
  /\ probe' = [NoProbe EXCEPT !.fn = "load", !.done = TRUE,
                              !.value = loadProgress(stored)]
  /\ UNCHANGED <<selectedLetter, gameVars, drag, timeouts, speechVars, sound, env,
                 stored, saveCalls, exitedEarly>>

\* saveLetterScore(letter, stars) is called; n records the rating held before
ApplySave(letter, stars) ==
  /\ probe' = [NoProbe EXCEPT !.fn = "save", !.done = TRUE, !.letter = letter,
                              !.stars = stars, !.n = loadProgress(stored).map[letter],
                              !.raised = saveRaises(stored) \/ ~env.storeWrites]
  /\ stored' = IF saveRaises(stored) \/ ~env.storeWrites THEN stored
               ELSE saveLetterScore(stored, letter, stars)
  /\ UNCHANGED <<selectedLetter, gameVars, drag, timeouts, speechVars, sound, env,
                 saveCalls, exitedEarly>>

\* resetProgress() is called
ApplyReset ==
  /\ probe' = [NoProbe EXCEPT !.fn = "reset", !.done = TRUE]
  /\ stored' = resetProgress(stored)
  /\ UNCHANGED <<selectedLetter, gameVars, drag, timeouts, speechVars, sound, env,
                 saveCalls, exitedEarly>>

NextStore ==
  \/ ApplyLoad
  \/ \E letter \in Letters, stars \in Ratings : ApplySave(letter, stars)
  \/ ApplyReset

SpecStore == InitStore /\ [][NextStore]_vars

(***************************************************************************)
(* Claims                                                                  *)
(***************************************************************************)
\* the task whose match locked the session
currentTask == TaskAt(tasks, currentTaskIndex)

\* a step in which a match is detected: the session gets locked
MatchStep == ~isProcessingSuccess /\ isProcessingSuccess'

\* the Score Function as the table of the specification
Score(n) ==
  CASE n \in {0, 1} -> 3
    [] n \in {2, 3} -> 2
    [] n \in {4, 5} -> 1
    [] OTHER -> 0

\* C1: when a task is matched, failedStepsCount is incremented exactly when the
\* moveCount at the match, the matching move included, is strictly greater than
\* the length of the normalized target plus 3
C1_FailedIffOverLimit ==
  [][MatchStep =>
       failedStepsCount' =
         IF moveCount' > Len(stripDashes(currentTask.text)) + 3
         THEN failedStepsCount + 1
         ELSE failedStepsCount]_vars

\* C2: a session exited before finalization has run never writes to the progress
\* store: the stored rating of every letter stays what it was before the session
C2_NoWriteAfterEarlyExit ==
  exitedEarly =>
    /\ saveCalls = 0
    /\ loadProgress(stored) = loadProgress(InitialStore)

\* C3: while the session is locked or finished, no beginMove or endMove event
\* changes GridState, moveCount, failedStepsCount, currentIndex or completedFlags
C3_LockedRejectsGestures ==
  [][((isProcessingSuccess \/ gameFinished) /\ (BeginMove \/ EndMove)) =>
       UNCHANGED <<gridState, moveCount, failedStepsCount, currentTaskIndex,
                   completedSteps>>]_vars

\* a begin event arrived while the session was locked, and its gesture is in flight
C3_Witness == isProcessingSuccess /\ drag # NoDrag

\* row r of a probed grid, left to right: the tile's letter in lower case, a
\* blank for an empty cell
RowText(g, r) ==
  [c \in 1 .. ProbeCols |->
     IF g[r * ProbeCols + c - 1] = NoTile THEN " "
     ELSE LowerChar(g[r * ProbeCols + c - 1].char)]

\* w occurs in row as a contiguous substring
Contains(row, w) ==
  \E i \in 0 .. (Len(row) - Len(w)) : \A j \in 1 .. Len(w) : row[i + j] = w[j]

\* the target without boundary markers, in lower case
Normalized(w) ==
  LET kept == SelectSeq(w, LAMBDA ch : ch # "-")
  IN  [k \in 1 .. Len(kept) |-> LowerChar(kept[k])]

C5_ScoreExact ==
  (probe.fn = "score" /\ probe.done) =>
    /\ probe.stars = Score(probe.n)
    /\ probe.stars \in 0 .. 3

\* the score of 6 failed steps was computed
C5_Witness == probe.fn = "score" /\ probe.done /\ probe.n = 6 /\ probe.stars = 0

\* C6: when the last task's choreography completes, the rating written for the
\* session's letter is Score(f) for the final failedStepsCount f, the last task's
\* failure included, and it overwrites what was stored, even a higher rating
C6_FinalRatingWritten ==
  gameFinished =>
    /\ saveCalls = 1
    /\ loadProgress(stored).map[Letter] = Score(failedStepsCount)

\* six failed steps wrote 0 over the stored 3
C6_Witness ==
  /\ gameFinished
  /\ failedStepsCount = 6
  /\ loadProgress(InitialStore).map[Letter] = 3
  /\ loadProgress(stored).map[Letter] = 0

\* the gesture in flight carries the tile that lies in its source cell
DragsTileOfGrid ==
  /\ drag.origin = "grid"
  /\ drag.index \in Cells
  /\ gridState[drag.index] = [char |-> drag.char, id |-> drag.id]

\* C7: an endMove of a grid-origin tile A from cell i to a different cell j puts A
\* at j and what j held (a tile B, or nothing) at i; A and B keep id and char and
\* every other cell is unchanged
C7_GridMoveRearranges ==
  [][\A j \in Cells :
       (EndMoveOn(j) /\ ~rejectsGesture /\ DragsTileOfGrid /\ drag.index # j) =>
         /\ gridState'[j] = gridState[drag.index]
         /\ gridState'[drag.index] = gridState[j]
         /\ \A c \in Cells \ {j, drag.index} : gridState'[c] = gridState[c]]_vars

\* a tile of the grid is in flight while another cell holds a tile and a third is
\* empty: its end on either cell is the claim's case
C7_Witness ==
  /\ ~rejectsGesture
  /\ DragsTileOfGrid
  /\ \E j \in Cells \ {drag.index} : IsTile(gridState[j])
  /\ \E j \in Cells \ {drag.index} : ~IsTile(gridState[j])

\* C8: in every reachable state each tile id occupies at most one cell
C8_TileIdsUnique ==
  \A c, d \in Cells :
    (c # d /\ IsTile(gridState[c]) /\ IsTile(gridState[d])) =>
      gridState[c].id # gridState[d].id

\* a later task's grid is full, after moves that left the ids out of cell order
C8_Witness ==
  /\ currentTaskIndex > 0
  /\ \A c \in Cells : IsTile(gridState[c])
  /\ gridState[0].id > gridState[1].id

\* the texts of a content array
TextsOf(array) == {array[k] : k \in 1 .. Len(array)}

\* C9: when each candidate set has at least 3 members, the task list has exactly 6
\* tasks, 3 syllables then 3 words, no candidate entry drawn twice, and a session
\* that reaches Finished has completed all 6 in that order
C9_SixTasksInOrder ==
  (mounted /\ Len(DataSyllables) >= 3 /\ Len(DataWords) >= 3) =>
    /\ Len(tasks) = 6
    /\ \A k \in 1 .. 3 : tasks[k].type = "syllable" /\ tasks[k].text \in TextsOf(DataSyllables)
    /\ \A k \in 4 .. 6 : tasks[k].type = "word" /\ tasks[k].text \in TextsOf(DataWords)
    /\ \A k, l \in 1 .. 3 : k # l => tasks[k].text # tasks[l].text
    /\ \A k, l \in 4 .. 6 : k # l => tasks[k].text # tasks[l].text
    /\ \A k \in 0 .. 5 : completedSteps[k] =>
         /\ k <= currentTaskIndex
         /\ \A l \in 0 .. k : completedSteps[l]
    /\ gameFinished => (currentTaskIndex = 5 /\ \A k \in 0 .. 5 : completedSteps[k])

\* a session whose shuffle drew the last syllable of the content first has finished
C9_Witness ==
  /\ gameFinished
  /\ tasks[1].text = DataSyllables[Len(DataSyllables)]
  /\ tasks[4].text = DataWords[3]

\* C10: re-announcing the current task leaves moveCount, failedStepsCount,
\* completedFlags, currentIndex and GridState unchanged, in every state in which
\* it can be requested
C10_ReAnnounceKeepsState ==
  [][ReAnnounce =>
       UNCHANGED <<moveCount, failedStepsCount, completedSteps, currentTaskIndex,
                   gridState>>]_vars

\* the prompt of a later task is in flight after moves of that task: it was
\* re-announced
C10_Witness ==
  /\ currentTaskIndex > 0
  /\ ~isProcessingSuccess
  /\ moveCount > 0
  /\ \E c \in Cells : IsTile(gridState[c])
  /\ utterance = speakText(promptOf(currentTask))

\* C11: a re-announce requested while the session is locked in ProcessingSuccess
\* speaks no prompt and does not cancel the success speech in flight
C11_ReAnnounceOnlyAwaiting ==
  [][(ReAnnounce /\ isProcessingSuccess) => UNCHANGED speechVars]_vars

\* C12: the session's trajectory does not depend on what the sound and speech
\* calls do: an accepted drop that changes the grid is applied and counted
\* whatever the drop sound does, and the 1000 ms callback schedules the 2000 ms
\* callback, which unlocks or finalizes, whatever the success sound does
C12_AudioIndependent ==
  [][/\ \A over \in DropTargets :
          (EndMoveOn(over) /\ ~rejectsGesture /\ over # NoTarget /\ didChange(drag, over)) =>
            /\ gridState' = dropState(gridState, drag, over)
            /\ moveCount' = moveCount + 1
     /\ FireSound => \E t \in timeouts' : t.kind = "next"]_vars

\* C13: when the write of the progress store fails during finalization, in a page
\* whose audio works, the session still becomes Finished with the computed star
\* rating and the finale sound is still played
C13_WriteFailureNotSurfaced ==
  [][(FireFinish /\ live /\ ~env.storeWrites /\ env.audio = "ok") =>
       /\ gameFinished'
       /\ finalStars' = Score(failedStepsCount)
       /\ sound' = "fanfare"]_vars

\* C14: reading the progress store never fails: when the stored value is absent,
\* unreadable or corrupt (anything but the JSON of a mapping), read-all returns the
\* empty mapping without raising, and a write-one that follows, setItem working,
\* succeeds and stores the written letter alone
C14_ReadNeverFails ==
  [][/\ (ApplyLoad /\ stored.kind # "json") =>
          (probe'.value = ObjectValue(EmptyProgress) /\ ~probe'.raised)
     /\ \A l \in Letters, r \in Ratings :
          (ApplySave(l, r) /\ stored.kind # "json" /\ env.storeWrites) =>
            /\ ~probe'.raised
            /\ stored' = JsonStore([EmptyProgress EXCEPT ![l] = r])]_vars

\* C15: on a readable store, write-one(letter, rating) makes read-all return rating
\* for that letter and leaves every other letter's rating as it was, with no merge
\* or max with the old value; clear-all makes read-all return the empty mapping
C15_WriteOverwritesOne ==
  [][/\ \A l \in Letters, r \in Ratings :
          (ApplySave(l, r) /\ stored.kind = "json" /\ env.storeWrites) =>
            /\ loadProgress(stored') = ObjectValue([loadProgress(stored).map EXCEPT ![l] = r])
            /\ loadProgress(stored').map[l] = r
     /\ ApplyReset => loadProgress(stored') = ObjectValue(EmptyProgress)]_vars

\* a rating of 1 was written over a stored 3, next to another letter's 2
C15_Witness ==
  /\ probe.fn = "save"
  /\ ~probe.raised
  /\ probe.n = 3
  /\ probe.stars = 1
  /\ loadProgress(stored).map[probe.letter] = 1
  /\ \E o \in Letters \ {probe.letter} : loadProgress(stored).map[o] = 2

\* C16: when the requested letter has no content data the session does not
\* populate: the task list stays empty, no first announcement is scheduled or
\* spoken (only single letters are), no gesture produces a match or locks the
\* session, it never reaches Finished and nothing is persisted
C16_NoDataNoSession ==
  ~LEARNING_DATA(OtherLetter).present =>
    /\ tasks = <<>>
    /\ timeouts = {}
    /\ Len(utterance) <= 1
    /\ ~isProcessingSuccess
    /\ ~gameFinished
    /\ completedSteps = NoSteps
    /\ saveCalls = 0
    /\ stored = InitialStore

\* without data, the grid was filled to spell "am", a target of the other letter,
\* and the moved letter was spoken
C16_Witness ==
  /\ selectedLetter = OtherLetter
  /\ ~LEARNING_DATA(selectedLetter).present
  /\ rowChars(GRID_COLS, gridState, 0) = <<"a", "m", "a">>
  /\ moveCount >= TOTAL_CELLS
  /\ Len(utterance) = 1

\* C17: after a match the success choreography runs in a fixed order, the session
\* locked throughout: the match locks and speaks the normalized target and
\* schedules the first delay; the 1000 ms callback plays the success sound and sets
\* completedFlags[currentIndex], still locked; the 2000 ms callback either empties
\* the grid, resets moveCount, advances currentIndex by one, unlocks and announces
\* the next task, or finalizes; the flag of a task is set before currentIndex
\* leaves it and before the session is unlocked
C17_ChoreographyOrder ==
  [][/\ MatchStep =>
          /\ utterance' = toLowerCase(stripDashes(currentTask.text))
          /\ \E t \in timeouts' : t.kind = "sound" /\ t.idx = currentTaskIndex
          /\ ~completedSteps'[currentTaskIndex]
     /\ (FireSound /\ live) =>
          /\ isProcessingSuccess /\ isProcessingSuccess'
          /\ sound' = "success"
          /\ completedSteps'[currentTaskIndex]
          /\ \E t \in timeouts' : t.kind = "next" /\ t.idx = currentTaskIndex
     /\ (FireNext /\ live) =>
          /\ isProcessingSuccess /\ completedSteps[currentTaskIndex]
          /\ gridState' = EmptyGrid
          /\ moveCount' = 0
          /\ currentTaskIndex' = currentTaskIndex + 1
          /\ ~isProcessingSuccess'
          /\ utterance' = speakText(promptOf(TaskAt(tasks, currentTaskIndex + 1)))
     /\ (FireFinish /\ live) =>
          /\ isProcessingSuccess /\ completedSteps[currentTaskIndex]
          /\ currentTaskIndex + 1 = Len(tasks)
          /\ gameFinished' /\ saveCalls' = saveCalls + 1
     /\ (mounted' /\ isProcessingSuccess /\ ~isProcessingSuccess') => FireNext
     /\ (mounted' /\ currentTaskIndex' # currentTaskIndex) => FireNext]_vars

\* in a later task's choreography the success sound has just been played and the
\* flag set, the session still locked and the 2000 ms callback pending
C17_Witness ==
  /\ currentTaskIndex > 0
  /\ isProcessingSuccess
  /\ ~gameFinished
  /\ sound = "success"
  /\ completedSteps[currentTaskIndex]
  /\ \E t \in timeouts : t.kind = "next" /\ t.idx = currentTaskIndex

\* C18: provided scheduled callbacks eventually fire and the session is not
\* exited, every match is eventually followed by the session unlocked on the next
\* task or by Finished: the session never stays locked in ProcessingSuccess
C18_MatchLeadsOn ==
  \A i \in 0 .. (STEP_COUNT - 1) :
    (mounted /\ isProcessingSuccess /\ ~gameFinished /\ currentTaskIndex = i)
      ~> \/ ~mounted
         \/ gameFinished
         \/ mounted /\ ~isProcessingSuccess /\ currentTaskIndex = i + 1

\* the first task's choreography is over: the session is unlocked on the second
\* task with an empty grid and no callback pending
C18_Witness ==
  /\ mounted
  /\ ~isProcessingSuccess
  /\ currentTaskIndex = 1
  /\ completedSteps[0]
  /\ gridState = EmptyGrid
  /\ moveCount = 0
  /\ timeouts = {}

\* C19: after the session is exited, none of its still-pending scheduled callbacks
\* has an effect: no prompt is spoken and no sound is played
C19_ExitedCallbacksInert ==
  [][(~mounted /\ (FireAnnounce \/ FireSound \/ FireNext \/ FireFinish)) =>
       /\ UNCHANGED speechVars
       /\ sound' = "none"]_vars

\* C20: the reference to an utterance is kept from the speak call until that same
\* utterance completes or errors: while an utterance is in flight the reference
\* holds it, also when the end or error event of an utterance cancelled before it
\* arrives late
C20_ReferenceKept ==
  utterance # NoUtterance => currentUtterance = utterance

\* C21: after any sequence of speak calls (announcements, letter feedback, success
\* speech, re-announce) at most one utterance is active: nothing waits behind the
\* utterance in flight, since every speak cancels before it issues the new one
C21_AtMostOneUtterance == speechQueue = <<>>

\* the success speech is in flight, issued while an earlier utterance was being
\* spoken: the event of that cancelled utterance is still to come
C21_Witness ==
  /\ isProcessingSuccess
  /\ utterance = toLowerCase(stripDashes(currentTask.text))
  /\ speechEvents # {}

\* C22: the text handed to speak never contains the syllable-boundary marker '-',
\* for syllable tasks as well as word tasks, and the phrase of a syllable task
\* differs from that of a word task with the same text
C22_PromptWithoutMarkers ==
  /\ \A k \in 1 .. Len(utterance) : utterance[k] # "-"
  /\ \A t \in TextsOf(DataSyllables) \cup TextsOf(DataWords) :
       promptOf([text |-> t, type |-> "syllable"]) # promptOf([text |-> t, type |-> "word"])

\* an origin/target combination for which the resolver defines nothing: a
\* grid-origin payload without sourceIndex, or a keyboard tile on the keyboard area
UndefinedCombination(data, over) ==
  \/ data.origin = "grid" /\ data.index = -1
  \/ data.origin = "keyboard" /\ over = KeyboardArea

\* C23: moveCount is incremented only by a gesture that changes GridState; a
\* gesture with an undefined origin/target combination, such as a grid-origin
\* payload without sourceIndex dropped on the keyboard area, leaves GridState and
\* moveCount unchanged and triggers no match check and no speech
C23_UndefinedGestureNoOp ==
  [][/\ moveCount' = moveCount + 1 => gridState' # gridState
     /\ \A over \in DropTargets :
          (EndMoveOn(over) /\ UndefinedCombination(drag, over)) =>
            UNCHANGED <<gridState, moveCount, isProcessingSuccess, speechVars>>]_vars

\* C24: an endMove with no drop target, an endMove of a grid tile onto its own
\* cell, and an endMove of a keyboard tile onto the keyboard area each leave
\* GridState, moveCount, failedStepsCount, currentIndex, completedFlags and locked
\* unchanged
C24_CancelledMovesNoOp ==
  [][\A over \in DropTargets :
       (/\ EndMoveOn(over)
        /\ \/ over = NoTarget
           \/ drag.origin = "grid" /\ drag.index = over
           \/ drag.origin = "keyboard" /\ over = KeyboardArea) =>
         UNCHANGED <<gridState, moveCount, failedStepsCount, currentTaskIndex,
                     completedSteps, isProcessingSuccess>>]_vars

\* in a later task an accepted end event played the drop sound and left the fresh
\* task untouched
C24_Witness ==
  /\ currentTaskIndex > 0
  /\ ~isProcessingSuccess
  /\ drag = NoDrag
  /\ sound = "drop"
  /\ moveCount = 0
  /\ gridState = EmptyGrid

\* C25: an endMove of a keyboard-origin tile onto cell j while awaiting input puts
\* at j a tile with the payload's char and an id that no tile of the grid had
\* before the move, discards what j held, leaves every other cell unchanged and
\* increments moveCount by exactly 1
C25_KeyboardDropPlacesFresh ==
  [][\A j \in Cells :
       (EndMoveOn(j) /\ ~rejectsGesture /\ drag.origin = "keyboard") =>
         /\ IsTile(gridState'[j])
         /\ gridState'[j].char = drag.char
         /\ gridState'[j].id \notin GridIds(gridState)
         /\ \A c \in Cells \ {j} : gridState'[c] = gridState[c]
         /\ moveCount' = moveCount + 1]_vars

\* a keyboard tile is in flight over a full grid while the session awaits input:
\* its end on any cell discards a tile
C25_Witness ==
  /\ ~rejectsGesture
  /\ drag.origin = "keyboard"
  /\ activeDragData = drag
  /\ \A c \in Cells : IsTile(gridState[c])

\* C26: an endMove of a grid-origin tile onto the keyboard area while awaiting
\* input removes exactly the tile at sourceIndex, leaves every other cell
\* unchanged, increments moveCount by exactly 1 and never produces a match
C26_RemovalOnKeyboardArea ==
  [][(EndMoveOn(KeyboardArea) /\ ~rejectsGesture /\ drag.origin = "grid") =>
       /\ gridState'[drag.index] = NoTile
       /\ \A c \in Cells \ {drag.index} : gridState'[c] = gridState[c]
       /\ moveCount' = moveCount + 1
       /\ ~isProcessingSuccess']_vars

\* the tile of the middle cell is in flight while the session awaits input and
\* both of its neighbours hold a tile: its end on the keyboard area leaves a gap
C26_Witness ==
  /\ ~rejectsGesture
  /\ DragsTileOfGrid
  /\ activeDragData = drag
  /\ drag.index = 1
  /\ IsTile(gridState[0])
  /\ IsTile(gridState[2])

\* C27: a gesture that changes the grid without producing a match speaks the
\* moved character and transitions nothing: currentTaskIndex, failedStepsCount
\* and completedSteps stay unchanged, no callback is scheduled and the session
\* stays unlocked and unfinished
C27_NoMatchSpeaksCharacter ==
  [][(/\ EndMove
      /\ moveCount' # moveCount
      /\ ~(/\ HasTask(tasks, currentTaskIndex)
           /\ checkGridForWord(gridState', TaskAt(tasks, currentTaskIndex).text))) =>
       /\ utterance' = speakText(<<drag.char>>)
       /\ currentUtterance' = speakText(<<drag.char>>)
       /\ UNCHANGED <<currentTaskIndex, failedStepsCount, completedSteps, timeouts>>
       /\ ~isProcessingSuccess'
       /\ ~gameFinished']_vars

\* the second move of a later task has just ended without a match: the moved
\* character is being spoken and the session awaits input
C27_Witness ==
  /\ currentTaskIndex > 0
  /\ ~isProcessingSuccess
  /\ ~gameFinished
  /\ drag = NoDrag
  /\ sound = "drop"
  /\ moveCount = 2
  /\ utterance = speakText(<<OtherLetter>>)
  /\ timeouts = {}

\* C28: GridState is empty at session start and once the success choreography of
\* every successful task has completed, the last task included; whenever a task
\* becomes current and unlocked, GridState is empty and moveCount is 0
C28_GridEmptiedAfterEveryTask ==
  /\ gridState = EmptyGrid
  /\ [][/\ ((FireNext \/ FireFinish) /\ live) => gridState' = EmptyGrid
        /\ (isProcessingSuccess /\ ~isProcessingSuccess') =>
             (gridState' = EmptyGrid /\ moveCount' = 0)]_vars

\* the end event of a gesture whose start handleDragStart rejected: the start
\* left activeDragData unset
RejectedAtStart == drag # NoDrag /\ activeDragData = NoDrag

\* C29: a gesture whose beginMove was rejected because the session was locked
\* never changes GridState or moveCount, even when its endMove arrives after the
\* choreography has emptied the grid and unlocked the session
C29_RejectedGestureNeverActs ==
  [][(EndMove /\ RejectedAtStart) => UNCHANGED <<gridState, moveCount>>]_vars

\* the number of tasks matched so far
matchedSoFar == currentTaskIndex + (IF isProcessingSuccess THEN 1 ELSE 0)

\* C30: failedStepsCount is incremented at most once per task and only at a
\* match: it changes only in a step that detects a match, and then by 1; in every
\* reachable state it is at most the number of tasks matched so far, hence at
\* most 6, and the value a pending choreography of the running session will pass
\* to finalization equals the failedStepsCount state
C30_FailedCountBounded ==
  /\ [](/\ failedStepsCount <= matchedSoFar
        /\ matchedSoFar <= STEP_COUNT
        /\ mounted =>
             \A t \in timeouts :
               t.kind \in {"sound", "next"} => finalFailedCountOf(t) = failedStepsCount)
  /\ [][(mounted' /\ failedStepsCount' # failedStepsCount) =>
          (MatchStep /\ failedStepsCount' = failedStepsCount + 1)]_vars
  /\ [][(FireFinish /\ live) => finalStars' = starsOf(failedStepsCount)]_vars

\* the last task has matched as the sixth failed step and its choreography is
\* about to finalize
C30_Witness ==
  /\ isProcessingSuccess
  /\ ~gameFinished
  /\ currentTaskIndex = STEP_COUNT - 1
  /\ failedStepsCount = STEP_COUNT
  /\ \E t \in timeouts : t.kind = "next" /\ t.isFailedStep

\* the indices of the progress indicator
Steps == 0 .. (STEP_COUNT - 1)

\* C31: in every reachable state of the running session completedSteps is a
\* prefix of the task list: true for every k below currentTaskIndex, false for
\* every k above it, false at currentTaskIndex while the session is unlocked;
\* currentTaskIndex stays within 0..5; in the finished session all 6 flags are
\* true; a flag once set is never cleared and currentTaskIndex only ever
\* increases by 1
C31_CompletedIsPrefix ==
  /\ [](mounted =>
          /\ currentTaskIndex \in Steps
          /\ \A k \in Steps :
               /\ k < currentTaskIndex => completedSteps[k]
               /\ k > currentTaskIndex => ~completedSteps[k]
          /\ ~isProcessingSuccess => ~completedSteps[currentTaskIndex]
          /\ gameFinished => \A k \in Steps : completedSteps[k])
  /\ [][mounted' =>
          /\ \A k \in Steps : completedSteps[k] => completedSteps'[k]
          /\ currentTaskIndex' \in {currentTaskIndex, currentTaskIndex + 1}]_vars

\* the fourth task is current and under way: three flags are set, its own is not
C31_Witness ==
  /\ mounted
  /\ currentTaskIndex = 3
  /\ ~isProcessingSuccess
  /\ moveCount > 0
  /\ completedSteps[2]
  /\ ~completedSteps[3]

\* C32: Finished is absorbing and finalization runs exactly once per session:
\* once the session is finished no gesture or callback changes gridState,
\* moveCount, failedStepsCount, currentTaskIndex or finalStars, the session stays
\* finished until it is left, no callback is pending, and the progress store has
\* been written exactly once and is never written again
C32_FinishedAbsorbing ==
  /\ [](saveCalls <= 1)
  /\ [](gameFinished => (saveCalls = 1 /\ timeouts = {}))
  /\ [][(gameFinished /\ mounted') =>
          UNCHANGED <<gridState, moveCount, failedStepsCount, currentTaskIndex,
                      finalStars, gameFinished, stored, saveCalls>>]_vars

\* a gesture is in flight in the finished session: its end event is still to come
C32_Witness ==
  /\ gameFinished
  /\ saveCalls = 1
  /\ drag # NoDrag
  /\ gridState # EmptyGrid

====
